---- MODULE Spec2Model ----
(***************************************************************************)
(* Micrawl: the generational crawl loop of Crawler::crawl (crawler.rs),    *)
(* its queue / crawled_pages / block_list bookkeeping, the link extraction *)
(* and the address classifiers, run against a small static web site.       *)
(*                                                                         *)
(* Strings are sequences of atoms ("example", ".", "com", ...); a Url is   *)
(* a host string and the last path segment.  Url equality is equality of   *)
(* the canonical string (Url::as_str), here equality of the record.        *)
(***************************************************************************)
EXTENDS Integers, Sequences, FiniteSets, TLC

VARIABLES
    config,         \* ArgCollection: list_external, threads (host is Seed)
    queue,          \* Crawler.queue: Vec<CrawlQueueItem>
    crawled_pages,  \* Crawler.crawled_pages: Vec<CrawlResult> (also the report's ledger)
    block_list,     \* Crawler.block_list: Vec<Url>
    tasks,          \* the JoinHandles of the current generation (indices into fetches)
    fetches,        \* every task ever spawned on the runtime: url, generation, state,
                    \* and whether its result has been handled by crawl()
    pc,             \* position of crawl(): "loop", "drain", "join", "process", "done"
    idx,            \* position of `for result in results`
    gen,            \* number of the generation being run
    site,           \* the web site: what each address answers (revealed on first fetch)
    step,           \* the last step taken
    segment,        \* a last path segment handed to the webpage filter on its own
    verdict         \* what is_webpage answered for segment ("none" before it is asked)

vars == <<config, queue, crawled_pages, block_list, tasks, fetches, pc, idx, gen, site, step,
          segment, verdict>>

----------------------------------------------------------------------------
(* Bounds *)

MaxGen == 4         \* generations a run may start
MaxThreads == 2     \* config.threads ranges over 1..MaxThreads
MaxSegLen == 5      \* atoms in a path segment handed to the webpage filter on its own

----------------------------------------------------------------------------
(* Strings and addresses *)

Dot == "."

HostSeed == <<"example", Dot, "com">>
HostOther == <<"other", Dot, "com">>
Hosts == {HostSeed, HostOther}

SegRoot == <<>>
SegA == <<"a">>
SegB == <<"b", Dot, "html">>
SegImage == <<"image", Dot, "png">>
Segs == {SegRoot, SegA, SegB, SegImage}

Urls == [host : Hosts, last : Segs]

Seed == [host |-> HostSeed, last |-> SegRoot]
PageA == [host |-> HostSeed, last |-> SegA]
PageB == [host |-> HostSeed, last |-> SegB]
Image == [host |-> HostSeed, last |-> SegImage]
Other == [host |-> HostOther, last |-> SegRoot]
OtherImage == [host |-> HostOther, last |-> SegImage]

\* str::contains on strings
Contains(s, t) ==
    \E i \in 1..(Len(s) - Len(t) + 1) : SubSeq(s, i, i + Len(t) - 1) = t

\* str::split_terminator('.'): no empty token after a final dot
RECURSIVE Split_terminator(_)
Split_terminator(s) ==
    IF \A i \in 1..Len(s) : s[i] # Dot
    THEN IF s = <<>> THEN <<>> ELSE <<s>>
    ELSE LET i == CHOOSE k \in 1..Len(s) : s[k] = Dot /\ \A j \in 1..(k - 1) : s[j] # Dot
         IN  <<SubSeq(s, 1, i - 1)>> \o Split_terminator(SubSeq(s, i + 1, Len(s)))

\* str::split('.') collected into a Vec
RECURSIVE Split(_)
Split(s) ==
    IF \A i \in 1..Len(s) : s[i] # Dot
    THEN <<s>>
    ELSE LET i == CHOOSE k \in 1..Len(s) : s[k] = Dot /\ \A j \in 1..(k - 1) : s[j] # Dot
         IN  <<SubSeq(s, 1, i - 1)>> \o Split(SubSeq(s, i + 1, Len(s)))

\* Href values found in documents: absolute, path-absolute, empty, or unparsable
AbsHref(u) == [kind |-> "abs", url |-> u]
RelHref(seg) == [kind |-> "rel", last |-> seg]
BadHref == [kind |-> "bad"]
SelfHref == [kind |-> "self"]     \* the empty reference: the document's own address

\* Url::join: the resolved address, or <<>> when resolution fails
Join(from, y) ==
    CASE y.kind = "abs" -> <<y.url>>
      [] y.kind = "rel" -> <<[host |-> from.host, last |-> y.last]>>
      [] y.kind = "self" -> <<from>>
      [] OTHER -> <<>>

----------------------------------------------------------------------------
(* The web site *)

Doc(a, f) == [anchors |-> a, forms |-> f]
EmptyDoc == Doc(<<>>, <<>>)

Docs ==
    { EmptyDoc,
      Doc(<<RelHref(SegA), RelHref(SegB)>>, <<>>),
      Doc(<<RelHref(SegA), AbsHref(Other)>>, <<>>),
      Doc(<<AbsHref(Other)>>, <<AbsHref(Other)>>),
      Doc(<<RelHref(SegImage), RelHref(SegB)>>, <<>>),
      Doc(<<AbsHref(Seed), RelHref(SegA)>>, <<>>),
      Doc(<<RelHref(SegA)>>, <<RelHref(SegA)>>),
      Doc(<<RelHref(SegB), BadHref, RelHref(SegA), AbsHref(OtherImage)>>, <<BadHref, SelfHref>>) }

Unknown == [kind |-> "unknown"]
ErrPage == [kind |-> "err"]       \* connect / timeout / redirect-policy error
HangPage == [kind |-> "hang"]     \* the host accepts and never answers
Page(ok, text, d) == [kind |-> "page", ok |-> ok, text |-> text, doc |-> d]
Redirect(t) == [kind |-> "redirect", to |-> t]

Served ==
    {ErrPage, HangPage, Page(FALSE, TRUE, EmptyDoc), Page(TRUE, FALSE, EmptyDoc)}
        \cup {Page(TRUE, TRUE, d) : d \in Docs}

RedirectTargets == {Seed, Other}

\* The sites that extend s with an answer for u
Reveal(s, u) ==
    IF s[u].kind # "unknown"
    THEN {s}
    ELSE {[s EXCEPT ![u] = r] : r \in Served}
         \cup {[s EXCEPT ![u] = Redirect(t)] :
                  t \in {x \in RedirectTargets \ {u} : s[x].kind \notin {"unknown", "redirect"}}}
         \cup UNION {{[s EXCEPT ![u] = Redirect(t), ![t] = r] : r \in Served} :
                  t \in {x \in RedirectTargets \ {u} : s[x].kind = "unknown"}}

\* What a GET of u ends in, following the redirect
FinalUrl(s, u) == IF s[u].kind = "redirect" THEN s[u].to ELSE u
Answer(s, u) == s[FinalUrl(s, u)]

----------------------------------------------------------------------------
(* Address classifiers and containment checks (crawler.rs 362-424) *)

is_same_domain(url) == Contains(url.host, Seed.host)

is_same_host(url) == Seed.host = url.host

\* every address counts as a web page
is_webpage_all(url) == TRUE

is_webpage(url) ==
    IF Contains(url.last, <<Dot>>)
    THEN LET last_split == Split(url.last)
         IN  ~(last_split[2] # <<"html">> /\ last_split[2] # <<"php">>)
    ELSE TRUE

is_in_queue(url, q) == \E i \in 1..Len(q) : q[i].url = url

already_crawled(url, cp) == \E i \in 1..Len(cp) : cp[i].url = url

is_in_blocklist(url) == \E i \in 1..Len(block_list) : block_list[i] = url

\* should_crawl without the already_crawled test
should_crawl_uncrawled(url, q, cp) ==
    /\ ~is_in_queue(url, q)
    /\ ~is_in_blocklist(url)
    /\ is_webpage(url)

\* should_crawl without the is_in_queue test
should_crawl_unqueued(url, q, cp) ==
    /\ ~already_crawled(url, cp)
    /\ ~is_in_blocklist(url)
    /\ is_webpage(url)

should_crawl(url, q, cp) ==
    /\ ~already_crawled(url, cp)
    /\ ~is_in_queue(url, q)
    /\ ~is_in_blocklist(url)
    /\ is_webpage(url)

----------------------------------------------------------------------------
(* Link extraction (crawler.rs 323-360) *)

CrawlQueueItem(url) ==
    [url |-> url, is_external |-> ~is_same_domain(url) /\ ~is_same_host(url)]

CrawlResult(url, status) == [url |-> url, status_code |-> status]

\* the queue after the anchors i.. of the document have been handled
RECURSIVE AnchorLoop(_, _, _, _, _)
AnchorLoop(q, cp, anchors, from, i) ==
    IF i > Len(anchors)
    THEN q
    ELSE LET r == Join(from, anchors[i])
             push == /\ r # <<>>
                     /\ should_crawl(r[1], q, cp)
                     /\ (is_same_domain(r[1]) \/ is_same_host(r[1]) \/ config.list_external)
         IN  AnchorLoop(IF push THEN Append(q, CrawlQueueItem(r[1])) ELSE q,
                        cp, anchors, from, i + 1)

\* only the first anchor of the document is handled
extract_anchor_hrefs_first(q, cp, doc, from) ==
    IF doc.anchors = <<>> THEN q ELSE AnchorLoop(q, cp, <<doc.anchors[1]>>, from, 1)

extract_anchor_hrefs(q, cp, doc, from) == AnchorLoop(q, cp, doc.anchors, from, 1)

\* crawled_pages after the form actions i.. of the document have been handled
RECURSIVE FormLoop(_, _, _, _)
FormLoop(cp, forms, from, i) ==
    IF i > Len(forms)
    THEN cp
    ELSE LET r == Join(from, forms[i])
             push == r # <<>> /\ ~already_crawled(r[1], cp)
         IN  FormLoop(IF push THEN Append(cp, CrawlResult(r[1], "None")) ELSE cp,
                      forms, from, i + 1)

\* the form entries replace what was recorded before
extract_form_actions_only(cp, doc, from) == FormLoop(<<>>, doc.forms, from, 1)

\* form actions are not reported
extract_form_actions_none(cp, doc, from) == cp

extract_form_actions(cp, doc, from) == FormLoop(cp, doc.forms, from, 1)

----------------------------------------------------------------------------
(* Crawler::new (crawler.rs 35-53) *)

Init ==
    /\ config \in [list_external : BOOLEAN, threads : 1..MaxThreads]
    /\ queue = <<[url |-> Seed, is_external |-> FALSE]>>
    /\ crawled_pages = <<>>
    /\ block_list = <<>>
    /\ tasks = <<>>
    /\ fetches = <<>>
    /\ pc = "loop"
    /\ idx = 0
    /\ gen = 0
    /\ site = [u \in Urls |-> Unknown]
    /\ step = "new"
    /\ segment = <<>>
    /\ verdict = "none"

----------------------------------------------------------------------------
(* Crawler::crawl (crawler.rs 55-180) *)

Last(q) == q[Len(q)]

\* Vec::last in place of Vec::pop: nothing is removed
PopRest_keep(q) == q

\* Vec::pop: what is left of the queue
PopRest(q) == SubSeq(q, 1, Len(q) - 1)

Running(i) == fetches[i].st = "running"

\* a join that resolves with the first handle that resolves
AllJoined_any(ts) == \E k \in 1..Len(ts) : ~Running(ts[k])

\* join_all resolves once every handle has resolved
AllJoined(ts) == \A k \in 1..Len(ts) : ~Running(ts[k])

\* `if self.queue.is_empty() { break; }`
LoopBreak ==
    /\ pc = "loop"
    /\ queue = <<>>
    /\ pc' = "done"
    /\ step' = "break"
    /\ UNCHANGED <<segment, verdict, config, queue, crawled_pages, block_list, tasks, fetches, idx, gen, site>>

\* a generation starts: `let mut tasks = Vec::new();`
LoopEnter ==
    /\ pc = "loop"
    /\ queue # <<>>
    /\ gen < MaxGen
    /\ pc' = "drain"
    /\ tasks' = <<>>
    /\ gen' = gen + 1
    /\ step' = "enter"
    /\ UNCHANGED <<segment, verdict, config, queue, crawled_pages, block_list, fetches, idx, site>>

\* an external entry is popped and fetched like an internal one
DequeueExternal_fetch ==
    /\ pc = "drain"
    /\ queue # <<>>
    /\ Last(queue).is_external
    /\ queue' = PopRest(queue)
    /\ site' \in Reveal(site, Last(queue).url)
    /\ fetches' = Append(fetches, [url |-> Last(queue).url, gen |-> gen, st |-> "running",
                                     processed |-> FALSE])
    /\ tasks' = Append(tasks, Len(fetches) + 1)
    /\ step' = "external"
    /\ UNCHANGED <<segment, verdict, config, crawled_pages, block_list, pc, idx, gen>>

\* an external entry is popped: it is printed and recorded, not fetched
DequeueExternal ==
    /\ pc = "drain"
    /\ queue # <<>>
    /\ Last(queue).is_external
    /\ queue' = PopRest(queue)
    /\ crawled_pages' = Append(crawled_pages, CrawlResult(Last(queue).url, "None"))
    /\ step' = "external"
    /\ UNCHANGED <<segment, verdict, config, block_list, tasks, fetches, pc, idx, gen, site>>

\* an internal entry is popped and passes should_crawl: a fetch task is spawned
DequeueSpawn ==
    /\ pc = "drain"
    /\ queue # <<>>
    /\ ~Last(queue).is_external
    /\ should_crawl(Last(queue).url, PopRest(queue), crawled_pages)
    /\ queue' = PopRest(queue)
    /\ site' \in Reveal(site, Last(queue).url)
    /\ fetches' = Append(fetches, [url |-> Last(queue).url, gen |-> gen, st |-> "running",
                                     processed |-> FALSE])
    /\ tasks' = Append(tasks, Len(fetches) + 1)
    /\ step' = "spawn"
    /\ UNCHANGED <<segment, verdict, config, crawled_pages, block_list, pc, idx, gen>>

\* an internal entry is popped and fails should_crawl: it is dropped
DequeueSkip ==
    /\ pc = "drain"
    /\ queue # <<>>
    /\ ~Last(queue).is_external
    /\ ~should_crawl(Last(queue).url, PopRest(queue), crawled_pages)
    /\ queue' = PopRest(queue)
    /\ step' = "skip"
    /\ UNCHANGED <<segment, verdict, config, crawled_pages, block_list, tasks, fetches, pc, idx, gen, site>>

\* the queue is drained: `if tasks.len() < 1 { break; }`, else join_all
DrainEnd ==
    /\ pc = "drain"
    /\ queue = <<>>
    /\ pc' = IF Len(tasks) < 1 THEN "done" ELSE "join"
    /\ step' = "drained"
    /\ UNCHANGED <<segment, verdict, config, queue, crawled_pages, block_list, tasks, fetches, idx, gen, site>>

\* a spawned request resolves; the client has no timeout, so a host that
\* never answers never resolves
FetchComplete(i) ==
    /\ Running(i)
    /\ Answer(site, fetches[i].url).kind # "hang"
    /\ fetches' = [fetches EXCEPT ![i].st =
                      IF Answer(site, fetches[i].url).kind = "err" THEN "err" ELSE "ok"]
    /\ UNCHANGED <<segment, verdict, config, queue, crawled_pages, block_list, tasks, pc, idx, gen, site, step>>

\* `futures::future::join_all(tasks).await` returns
JoinAll ==
    /\ pc = "join"
    /\ AllJoined(tasks)
    /\ pc' = "process"
    /\ idx' = 1
    /\ step' = "joined"
    /\ UNCHANGED <<segment, verdict, config, queue, crawled_pages, block_list, tasks, fetches, gen, site>>

\* res.url() taken to be the address the request was sent to
ResponseUrl_requested(s, u) == u

\* res.url(): the address the response came from
ResponseUrl(s, u) == FinalUrl(s, u)

\* the response is parsed only while the queue is empty
ProcessResult_idle(q, cp, u) ==
    LET from == ResponseUrl(site, u)
        res == Answer(site, u)
        cp1 == Append(cp, CrawlResult(from, IF res.ok THEN "2xx" ELSE "other"))
        parse == /\ res.ok
                 /\ (is_same_domain(from) \/ is_same_host(from))
                 /\ res.text
                 /\ q = <<>>
    IN  [queue |-> IF parse THEN extract_anchor_hrefs(q, cp1, res.doc, from) ELSE q,
         crawled_pages |-> IF parse THEN extract_form_actions(cp1, res.doc, from) ELSE cp1]

\* the body of `if let Ok(res) = unwrapped` for the response to the GET of u,
\* started with queue q and crawled_pages cp: the two Vecs afterwards
ProcessResult(q, cp, u) ==
    LET from == ResponseUrl(site, u)
        res == Answer(site, u)
        cp1 == Append(cp, CrawlResult(from, IF res.ok THEN "2xx" ELSE "other"))
        parse == /\ res.ok
                 /\ (is_same_domain(from) \/ is_same_host(from))
                 /\ res.text
    IN  [queue |-> IF parse THEN extract_anchor_hrefs(q, cp1, res.doc, from) ELSE q,
         crawled_pages |-> IF parse THEN extract_form_actions(cp1, res.doc, from) ELSE cp1]

\* `for result in results` run over the results k.. of the fetches listed in
\* order, started with queue q and crawled_pages cp: the two Vecs afterwards
RECURSIVE ProcessAll(_, _, _, _)
ProcessAll(q, cp, order, k) ==
    IF k > Len(order)
    THEN [queue |-> q, crawled_pages |-> cp]
    ELSE LET f == fetches[order[k]]
             r == IF f.st = "ok"
                  THEN ProcessResult(q, cp, f.url)
                  ELSE [queue |-> q, crawled_pages |-> cp]
         IN  ProcessAll(r.queue, r.crawled_pages, order, k + 1)

\* one Ok(Ok(res)) result: recorded under its final address, then parsed
ProcessOk ==
    /\ pc = "process"
    /\ idx <= Len(tasks)
    /\ fetches[tasks[idx]].st = "ok"
    /\ queue' = ProcessResult(queue, crawled_pages, fetches[tasks[idx]].url).queue
    /\ crawled_pages' =
          ProcessResult(queue, crawled_pages, fetches[tasks[idx]].url).crawled_pages
    /\ fetches' = [fetches EXCEPT ![tasks[idx]].processed = TRUE]
    /\ idx' = idx + 1
    /\ step' = "ok"
    /\ UNCHANGED <<segment, verdict, config, block_list, tasks, pc, gen, site>>

\* one result that is not Ok(Ok(res)): nothing is recorded
ProcessErr ==
    /\ pc = "process"
    /\ idx <= Len(tasks)
    /\ fetches[tasks[idx]].st # "ok"
    /\ fetches' = [fetches EXCEPT ![tasks[idx]].processed = TRUE]
    /\ idx' = idx + 1
    /\ step' = "err"
    /\ UNCHANGED <<segment, verdict, config, queue, crawled_pages, block_list, tasks, pc, gen, site>>

\* `for result in results` is exhausted: back to the top of the loop
GenerationEnd ==
    /\ pc = "process"
    /\ idx > Len(tasks)
    /\ pc' = "loop"
    /\ step' = "processed"
    /\ UNCHANGED <<segment, verdict, config, queue, crawled_pages, block_list, tasks, fetches, idx, gen, site>>

Complete == \E i \in 1..Len(fetches) : FetchComplete(i)

Orchestrator ==
    \/ LoopBreak
    \/ LoopEnter
    \/ DequeueExternal
    \/ DequeueSpawn
    \/ DequeueSkip
    \/ DrainEnd
    \/ JoinAll
    \/ ProcessOk
    \/ ProcessErr
    \/ GenerationEnd

Next == Orchestrator \/ Complete

Spec == Init /\ [][Next]_vars

\* the runtime keeps polling the main future and every spawned task
FairSpec == Spec /\ WF_vars(Orchestrator) /\ WF_vars(Complete)

----------------------------------------------------------------------------
(* The webpage filter on its own: one address, found as the only anchor of *)
(* a page served at the seed by a crawler that has recorded nothing yet    *)

Atoms == {"a", "b", Dot, "html", "php", "png"}

RECURSIVE SeqsUpTo(_, _)
SeqsUpTo(S, n) ==
    IF n = 0 THEN {<<>>}
    ELSE LET shorter == SeqsUpTo(S, n - 1)
         IN  shorter \cup {Append(t, x) : t \in {w \in shorter : Len(w) = n - 1}, x \in S}

Segments == SeqsUpTo(Atoms, MaxSegLen)

SegUrl(sg) == [host |-> HostSeed, last |-> sg]

WebInit ==
    /\ config \in [list_external : BOOLEAN, threads : {1}]
    /\ queue = <<>>
    /\ crawled_pages = <<>>
    /\ block_list = <<>>
    /\ tasks = <<>>
    /\ fetches = <<>>
    /\ pc = "web"
    /\ idx = 0
    /\ gen = 0
    /\ site = [u \in Urls |-> Unknown]
    /\ step = "new"
    /\ segment \in Segments
    /\ verdict = "none"

\* is_webpage is asked about the address, and the anchor goes through
\* extract_anchor_hrefs
WebCheck ==
    /\ pc = "web"
    /\ verdict' = is_webpage(SegUrl(segment))
    /\ queue' = extract_anchor_hrefs(queue, crawled_pages,
                                      Doc(<<RelHref(segment)>>, <<>>), Seed)
    /\ pc' = "web_done"
    /\ step' = "web"
    /\ UNCHANGED <<segment, config, crawled_pages, block_list, tasks, fetches, idx, gen, site>>

WebNext == WebCheck

WebSpec == WebInit /\ [][WebNext]_vars

----------------------------------------------------------------------------
(* Vocabulary of the properties *)

UrlsOf(cp) == {cp[i].url : i \in 1..Len(cp)}

BlockedUrls == {block_list[i] : i \in 1..Len(block_list)}

IsExternal(url) == ~is_same_domain(url) /\ ~is_same_host(url)

Outstanding == {i \in 1..Len(fetches) : Running(i)}

\* a step that hands an address to a new fetch task
Dispatches == Len(fetches') > Len(fetches)
DispatchedUrl == fetches'[Len(fetches')].url

\* the response of fetch i went through link extraction
Parsed(i) ==
    /\ fetches[i].st = "ok"
    /\ fetches[i].processed
    /\ Answer(site, fetches[i].url).ok
    /\ Answer(site, fetches[i].url).text
    /\ ~IsExternal(FinalUrl(site, fetches[i].url))

Resolved(from, hrefs) ==
    {Join(from, hrefs[k])[1] : k \in {n \in 1..Len(hrefs) : Join(from, hrefs[n]) # <<>>}}

\* the anchor targets of the page that address u answers with, when it is parsed
Links(s, u) ==
    LET res == Answer(s, u)
    IN  IF res.kind = "page" /\ res.ok /\ res.text /\ ~IsExternal(FinalUrl(s, u))
        THEN Resolved(FinalUrl(s, u), res.doc.anchors)
        ELSE {}

\* the form targets of the page that address u answers with, when it is parsed
Forms(s, u) ==
    LET res == Answer(s, u)
    IN  IF res.kind = "page" /\ res.ok /\ res.text /\ ~IsExternal(FinalUrl(s, u))
        THEN Resolved(FinalUrl(s, u), res.doc.forms)
        ELSE {}

RECURSIVE ReachIn(_, _, _)
ReachIn(s, from, n) ==
    IF n = 0 THEN from
    ELSE ReachIn(s, from \cup UNION {Links(s, u) : u \in from}, n - 1)

AcyclicSite == \A u \in Urls : u \notin ReachIn(site, Links(site, u), Cardinality(Urls))

NoHang == \A u \in Urls : site[u].kind # "hang"

----------------------------------------------------------------------------
(* Properties *)

\* C1: no step dispatches a fetch of an address that crawled_pages or
\* block_list holds, and an address those hold stays in them, so an address
\* once recorded is never dispatched again, however it is rediscovered.
C1_NoRefetch ==
    [][/\ Dispatches => /\ ~already_crawled(DispatchedUrl, crawled_pages)
                        /\ ~is_in_blocklist(DispatchedUrl)
       /\ UrlsOf(crawled_pages) \subseteq UrlsOf(crawled_pages')
       /\ BlockedUrls \subseteq BlockedUrls']_vars

\* a finished run in which a later page linked back to an address that was
\* already crawled, and the address was fetched once only
C1_Witness ==
    /\ pc = "done"
    /\ \E i, j \in 1..Len(fetches) :
          /\ fetches[j].gen < fetches[i].gen
          /\ Parsed(i)
          /\ fetches[j].url \in Links(site, fetches[i].url)
          /\ fetches[j].url \in UrlsOf(crawled_pages)
          /\ \A k \in 1..Len(fetches) : fetches[k].url = fetches[j].url => k = j

\* C2: every address occurs at most once in crawled_pages, which is both the
\* crawled set and the ledger handed to the report.
C2_Uniqueness ==
    \A i, j \in 1..Len(crawled_pages) :
        crawled_pages[i].url = crawled_pages[j].url => i = j

\* C3: an address whose fetch failed is not dispatched again in a later
\* generation.
C3_BlocklistPermanence ==
    \A i, j \in 1..Len(fetches) :
        (fetches[i].url = fetches[j].url /\ fetches[i].gen < fetches[j].gen)
            => fetches[i].st # "err"

\* C4: the number of fetches dispatched and not yet completed never exceeds
\* config.threads.
C4_ConcurrencyBound == Cardinality(Outstanding) <= config.threads

\* C5 as stated: while a dispatched fetch is outstanding no step changes the
\* queue, crawled_pages or block_list.
C5_Barrier ==
    [][Outstanding # {} => UNCHANGED <<queue, crawled_pages, block_list>>]_vars

\* C5 as amended: while a dispatched fetch is outstanding no result is
\* processed and no generation ends; the dispatch loop may go on popping the
\* queue and recording external entries, and once the queue is drained
\* nothing changes the queue, crawled_pages or block_list until every fetch
\* has completed.
C5_BarrierAmended ==
    [][Outstanding # {} =>
          /\ pc \in {"drain", "join"}
          /\ pc' \in {"drain", "join"}
          /\ block_list' = block_list
          /\ pc = "join" => UNCHANGED <<queue, crawled_pages>>
          /\ pc = "drain" =>
                /\ queue' \in {queue, PopRest(queue)}
                /\ \/ crawled_pages' = crawled_pages
                   \/ /\ queue # <<>>
                      /\ Last(queue).is_external
                      /\ crawled_pages' =
                            Append(crawled_pages, CrawlResult(Last(queue).url, "None"))]_vars

\* the barrier is being waited on: two fetches dispatched, one resolved, one not
C5_Witness ==
    /\ pc = "join"
    /\ Len(tasks) >= 2
    /\ \E k \in 1..Len(tasks) : Running(tasks[k])
    /\ \E k \in 1..Len(tasks) : ~Running(tasks[k])

\* C6: whenever a fetch of a later generation exists, every fetch of an
\* earlier generation has completed and its result has been processed.
C6_Sequential ==
    \A i, j \in 1..Len(fetches) :
        fetches[i].gen < fetches[j].gen => (~Running(i) /\ fetches[i].processed)

\* a fetch of a third generation has been dispatched
C6_Witness ==
    \E i, j, k \in 1..Len(fetches) :
        fetches[i].gen < fetches[j].gen /\ fetches[j].gen < fetches[k].gen

\* C7: a step taken while the entry about to be popped is flagged external
\* spawns no fetch task, and when it pops the entry it only appends the
\* entry's address to crawled_pages.
C7_ExternalNotFetched ==
    [][(pc = "drain" /\ queue # <<>> /\ Last(queue).is_external) =>
          /\ ~Dispatches
          /\ tasks' = tasks
          /\ queue' # queue =>
                /\ queue' = PopRest(queue)
                /\ crawled_pages' =
                      Append(crawled_pages, CrawlResult(Last(queue).url, "None"))
                /\ block_list' = block_list]_vars

\* an external entry has just been popped and recorded, and no fetch of it exists
C7_Witness ==
    /\ step = "external"
    /\ crawled_pages # <<>>
    /\ IsExternal(Last(crawled_pages).url)
    /\ Last(crawled_pages).status_code = "None"
    /\ \A i \in 1..Len(fetches) : fetches[i].url # Last(crawled_pages).url

\* C8: with list_external off no external address is in crawled_pages; with
\* it on, at the end of the run every external anchor target of a parsed page
\* is in crawled_pages.
C8_ExternalIffFlag ==
    /\ ~config.list_external =>
          \A i \in 1..Len(crawled_pages) : ~IsExternal(crawled_pages[i].url)
    /\ (config.list_external /\ pc = "done") =>
          \A i \in 1..Len(fetches) :
              Parsed(i) =>
                  \A v \in Links(site, fetches[i].url) :
                      IsExternal(v) => v \in UrlsOf(crawled_pages)

\* C9: on a site whose link graph is acyclic and where no host hangs, the
\* generation loop ends, with the queue empty.
C9_Termination ==
    [](AcyclicSite /\ NoHang) => <>(pc = "done" /\ queue = <<>>)

\* a run over an acyclic site with three generations of fetches has ended
C9_Witness ==
    /\ pc = "done"
    /\ queue = <<>>
    /\ AcyclicSite
    /\ NoHang
    /\ C6_Witness

\* C10: a generation that has dispatched its fetches reaches the processing
\* of their outcomes.
C10_NoStall == (pc = "join") ~> (pc = "process")

ScenarioA ==
    /\ ~config.list_external
    /\ site[Seed] = Page(TRUE, TRUE, Doc(<<RelHref(SegA), AbsHref(Other)>>, <<>>))
    /\ gen = 1
    /\ pc = "loop"
    /\ step = "processed"

\* C12: after the first generation of Scenario A the only internal address
\* in the ledger (crawled_pages) is /a, other.com is not in the ledger, and
\* /a is what the next generation will fetch.
C12_ScenarioA ==
    ScenarioA =>
        /\ {u \in UrlsOf(crawled_pages) : ~IsExternal(u)} = {PageA}
        /\ Other \notin UrlsOf(crawled_pages)
        /\ queue = <<CrawlQueueItem(PageA)>>

\* C13: a failed fetch whose result has been processed has its address in
\* crawled_pages and in block_list; when the seed fetch fails the run ends
\* after one generation with the seed in both.
C13_FailureRecorded ==
    /\ \A i \in 1..Len(fetches) :
          (fetches[i].st = "err" /\ fetches[i].processed) =>
              /\ already_crawled(fetches[i].url, crawled_pages)
              /\ is_in_blocklist(fetches[i].url)
    /\ (pc = "done" /\ site[Seed].kind = "err") =>
          /\ gen = 1
          /\ UrlsOf(crawled_pages) = {Seed}
          /\ BlockedUrls = {Seed}

\* C14: between generations and at the end, every address that was
\* dispatched to a fetch is in crawled_pages.
C14_CrawledCoversDispatched ==
    pc \in {"loop", "done"} =>
        \A i \in 1..Len(fetches) : already_crawled(fetches[i].url, crawled_pages)

\* C15: no address is in the queue more than once.
C15_QueueUnique ==
    \A i, j \in 1..Len(queue) : queue[i].url = queue[j].url => i = j

\* two pages of the generation being processed both link an address that is
\* waiting in the queue, and the queue holds it once
C15_Witness ==
    /\ pc = "process"
    /\ \E i, j \in 1..Len(fetches) :
          /\ i # j
          /\ fetches[i].gen = gen /\ fetches[j].gen = gen
          /\ Parsed(i) /\ Parsed(j)
          /\ \E v \in Links(site, fetches[i].url) \cap Links(site, fetches[j].url) :
                /\ ~already_crawled(v, crawled_pages)
                /\ Cardinality({k \in 1..Len(queue) : queue[k].url = v}) = 1

\* C16: no address is in the queue and in crawled_pages at the same time.
C16_QueueCrawledDisjoint ==
    \A k \in 1..Len(queue) : ~already_crawled(queue[k].url, crawled_pages)

\* the number of dots of a path segment
DotCount(sg) == Cardinality({k \in 1..Len(sg) : sg[k] = Dot})

\* the text after the last dot of a path segment that has one
AfterLastDot(sg) ==
    LET k == CHOOSE n \in 1..Len(sg) : sg[n] = Dot /\ \A m \in (n + 1)..Len(sg) : sg[m] # Dot
    IN  SubSeq(sg, k + 1, Len(sg))

PageExtensions == {<<"html">>, <<"php">>}

\* C17: with the other enqueue conditions holding (on-site, not crawled, not
\* queued, not blocked), an anchor target whose final segment is name.ext
\* (one dot) with ext other than html and php is not enqueued, and one whose
\* final segment is name.html, name.php or has no dot is enqueued.
C17_WebpageFilter ==
    pc = "web_done" =>
        /\ (DotCount(segment) = 1 /\ AfterLastDot(segment) \notin PageExtensions)
              => queue = <<>>
        /\ (DotCount(segment) = 0
              \/ (DotCount(segment) = 1 /\ AfterLastDot(segment) \in PageExtensions))
              => queue = <<CrawlQueueItem(SegUrl(segment))>>

\* an anchor to a.png has been handled and nothing was enqueued
C17_Witness ==
    /\ pc = "web_done"
    /\ segment = <<"a", Dot, "png">>
    /\ verdict = FALSE
    /\ queue = <<>>

\* C20: is_webpage passes an address iff its final segment has no dot or the
\* text after its last dot is html or php.
C20_LastDot ==
    pc = "web_done" =>
        (verdict <=> (DotCount(segment) = 0 \/ AfterLastDot(segment) \in PageExtensions))

Orders(t) ==
    {[k \in 1..Len(t) |-> t[p[k]]] :
        p \in {f \in [1..Len(t) -> 1..Len(t)] : \A a, b \in 1..Len(t) : f[a] = f[b] => a = b}}

\* the state after the results of the joined tasks are processed in an order
After(order) == ProcessAll(queue, crawled_pages, order, 1)

\* the tag of an address in a ledger: the status of its first entry
TagOf(cp, u) == cp[CHOOSE k \in 1..Len(cp) : cp[k].url = u /\ \A m \in 1..(k - 1) : cp[m].url # u].status_code

Tags(cp) == {<<u, TagOf(cp, u)>> : u \in UrlsOf(cp)}

\* the queued addresses that are still to be visited
Pending(r) == {r.queue[k].url : k \in 1..Len(r.queue)} \ UrlsOf(r.crawled_pages)

\* the results of a generation are about to be processed
Joined == pc = "process" /\ idx = 1

\* C19 as stated: in whatever order the results of a generation are
\* processed, crawled_pages holds the same addresses afterwards, each with the
\* same tag.
C19_OrderIndependent ==
    Joined =>
        \A o \in Orders(tasks) :
            Tags(After(o).crawled_pages) = Tags(After(tasks).crawled_pages)

\* C19 as amended: in whatever order the results of a generation are
\* processed, crawled_pages holds the same addresses afterwards and the same
\* addresses are left to visit.
C19_OrderIndependentAmended ==
    Joined =>
        \A o \in Orders(tasks) :
            /\ UrlsOf(After(o).crawled_pages) = UrlsOf(After(tasks).crawled_pages)
            /\ Pending(After(o)) = Pending(After(tasks))

\* a generation whose results give the same addresses in every order but a
\* different tag for one of them in some order
C19_Witness ==
    /\ Joined
    /\ \E o \in Orders(tasks) :
          /\ UrlsOf(After(o).crawled_pages) = UrlsOf(After(tasks).crawled_pages)
          /\ Pending(After(o)) = Pending(After(tasks))
          /\ Tags(After(o).crawled_pages) # Tags(After(tasks).crawled_pages)

\* s is an initial part of t
IsPrefix(s, t) == Len(s) <= Len(t) /\ SubSeq(t, 1, Len(s)) = s

\* C21: no step removes or changes an entry of crawled_pages or block_list:
\* each Vec after a step begins with the Vec before it.
C21_OnlyGrow ==
    [][IsPrefix(crawled_pages, crawled_pages') /\ IsPrefix(block_list, block_list')]_vars

\* a finished run that recorded a fetched page, a form target and a dequeued
\* external entry, one after the other
C21_Witness ==
    /\ pc = "done"
    /\ \E i, j, k \in 1..Len(crawled_pages) :
          /\ i < j /\ j < k
          /\ crawled_pages[i].status_code = "2xx"
          /\ crawled_pages[j].status_code = "None"
          /\ IsExternal(crawled_pages[k].url)
          /\ crawled_pages[k].url # crawled_pages[j].url

\* no fetch dispatched so far is redirected or fails
Straight ==
    \A i \in 1..Len(fetches) :
        /\ FinalUrl(site, fetches[i].url) = fetches[i].url
        /\ site[fetches[i].url].kind # "err"

\* C22: while no dispatched fetch is redirected or fails, no address has been
\* dispatched to a fetch task twice.
C22_DispatchedOnce ==
    Straight =>
        \A i, j \in 1..Len(fetches) : fetches[i].url = fetches[j].url => i = j

\* a finished run without redirect or failure in which a page of a
\* generation linked an address fetched in that same generation, processed
\* after it, so that the address was enqueued while in flight
C22_Witness ==
    /\ pc = "done"
    /\ Straight
    /\ \E i, j \in 1..Len(fetches) :
          /\ i < j
          /\ fetches[i].gen = fetches[j].gen
          /\ Parsed(i)
          /\ fetches[j].url \in Links(site, fetches[i].url)
          /\ is_webpage(fetches[j].url)
    /\ \A i, j \in 1..Len(fetches) : fetches[i].url = fetches[j].url => i = j

\* no address of the site answers with a redirect
NoRedirect == \A u \in Urls : site[u].kind # "redirect"

\* two different pages link each other
CyclicPair ==
    \E u, v \in Urls : u # v /\ v \in Links(site, u) /\ u \in Links(site, v)

\* C23: when no address redirects and every request gets its answer, the
\* generation loop ends with an empty queue, whatever the links and failures.
C23_Termination ==
    [](NoRedirect /\ NoHang) => <>(pc = "done" /\ queue = <<>>)

\* a run has ended over a site without redirects in which two pages link each
\* other and a fetch failed
C23_Witness ==
    /\ pc = "done"
    /\ queue = <<>>
    /\ NoRedirect
    /\ NoHang
    /\ CyclicPair
    /\ \E i \in 1..Len(fetches) : fetches[i].st = "err"

\* the address has been dispatched to a fetch
Dispatched(v) == \E j \in 1..Len(fetches) : fetches[j].url = v

\* the on-site anchor targets of the page of fetch i that pass is_webpage
Followable(i) ==
    {x \in Links(site, fetches[i].url) : (is_same_domain(x) \/ is_same_host(x)) /\ is_webpage(x)}

\* C24: when crawl has ended, every on-site anchor target that passes
\* is_webpage, on every page that went through link extraction, has been
\* dispatched to a fetch or is in crawled_pages.
C24_Completeness ==
    pc = "done" =>
        \A i \in 1..Len(fetches) :
            Parsed(i) =>
                \A v \in Followable(i) : Dispatched(v) \/ already_crawled(v, crawled_pages)

\* an ended run whose parsed pages have an anchor target that was fetched in a
\* later generation and one that was never fetched but is in crawled_pages
C24_Witness ==
    /\ pc = "done"
    /\ \E i, k \in 1..Len(fetches) :
          /\ Parsed(i) /\ Parsed(k)
          /\ \E v \in Followable(i) :
                \E j \in 1..Len(fetches) : fetches[j].url = v /\ fetches[j].gen > fetches[i].gen
          /\ \E w \in Followable(k) : ~Dispatched(w) /\ already_crawled(w, crawled_pages)

\* C25: for every final path segment that contains a dot the split on '.'
\* has a token at index 1 (the second token), and is_webpage has returned a
\* boolean for every segment it was called with.
C25_IndexInRange ==
    /\ Contains(segment, <<Dot>>) => Len(Split(segment)) >= 2
    /\ pc = "web_done" => verdict \in BOOLEAN

\* is_webpage has answered for a segment with two dots that ends in a dot
C25_Witness ==
    /\ pc = "web_done"
    /\ segment = <<"a", Dot, "b", Dot>>
    /\ Split(segment) = <<(<<"a">>), (<<"b">>), (<<>>)>>
    /\ verdict = FALSE

====
